---- MODULE Spec2Model ----
(***************************************************************************)
(* Model of the GitHub webhook gateway of biomebot                         *)
(* (src/src/routes/github.rs): signature verification, event               *)
(* classification, the issue-label decision and the two relay modes.       *)
(*                                                                         *)
(* Text is modelled as a sequence of one-character strings, raw bytes as   *)
(* a sequence of numbers in 0..255.  A Rust Result / Option that is an     *)
(* Ok(v) / Some(v) is the record Some(v), one that is Err / None is Err   *)
(* / None: the field ok tells them apart.                                  *)
(***************************************************************************)
EXTENDS Integers, Sequences, FiniteSets, TLC

VARIABLES
    config,      \* Data.config: the immutable configuration
    req,         \* req[r]: the inbound request r (its headers and body)
    pc,          \* pc[r]: the position of handle_gh for request r
    authorized,  \* authorized[r]: what is_authorized returned for r
    trace,       \* trace[r]: the steps handle_gh has taken for r, in order
    out,         \* out[r]: the outbound calls made for r, in order
    status,      \* status[r]: the StatusCode returned for r (0: none yet)
    fn,          \* the pure function a function-level specification applies
    fn_in,       \* its arguments
    fn_out       \* its result ("pending" before it is applied)

vars == <<config, req, pc, authorized, trace, out, status, fn, fn_in, fn_out>>

reqVars == <<config, req, pc, authorized, trace, out, status>>

fnVars == <<fn, fn_in, fn_out>>

(***************************************************************************)
(* Bounds of the model.                                                    *)
(***************************************************************************)
\* Longest raw body, in bytes, that the signature specification draws.
MaxBodyLen == 2

\* Most repetitions of the text "sha256=" in front of a signature value.
MaxPrefix == 2

\* Bytes of a digest of the keyed hash of the model (SHA-256 yields 32).
DigestLen == 2

(***************************************************************************)
(* Rust's Option and Result.                                               *)
(***************************************************************************)
Some(v) == [ok |-> TRUE, v |-> v]

None == [ok |-> FALSE]

Err == [ok |-> FALSE, err |-> TRUE]

(***************************************************************************)
(* Text.                                                                   *)
(***************************************************************************)
\* A byte outside visible ASCII, as a header value may carry one.
NonAscii == "\\x80"

Sha256Prefix == <<"s", "h", "a", "2", "5", "6", "=">>

StrIssues == <<"i", "s", "s", "u", "e", "s">>

StrPullRequest == <<"p", "u", "l", "l", "_", "r", "e", "q", "u", "e", "s", "t">>

StrPush == <<"p", "u", "s", "h">>

StrIssuesUpper == <<"I", "s", "s", "u", "e", "s">>

HexLower == <<"0", "1", "2", "3", "4", "5", "6", "7", "8", "9", "a", "b", "c", "d", "e", "f">>

HexUpper == <<"0", "1", "2", "3", "4", "5", "6", "7", "8", "9", "A", "B", "C", "D", "E", "F">>

\* str::starts_with
StartsWith(s, p) == Len(s) >= Len(p) /\ SubSeq(s, 1, Len(p)) = p

\* trim_start_matches with the bug of removing the prefix once at most
\* (str::strip_prefix).
trim_start_matches_once(s, p) ==
    IF Len(p) > 0 /\ StartsWith(s, p) THEN SubSeq(s, Len(p) + 1, Len(s)) ELSE s

\* str::trim_start_matches(pat): the prefix is removed as often as it repeats.
RECURSIVE trim_start_matches(_, _)
trim_start_matches(s, p) ==
    IF Len(p) > 0 /\ StartsWith(s, p)
    THEN trim_start_matches(SubSeq(s, Len(p) + 1, Len(s)), p)
    ELSE s

\* HeaderValue::to_str: the text of a value, Err when a byte is not visible ASCII.
to_str(hv) == IF \E i \in 1..Len(hv) : hv[i] = NonAscii THEN Err ELSE Some(hv)

\* hex's value of one character, -1 for a character that is no hex digit.
HexVal(c) ==
    IF \E i \in 1..16 : HexLower[i] = c
    THEN (CHOOSE i \in 1..16 : HexLower[i] = c) - 1
    ELSE IF \E i \in 1..16 : HexUpper[i] = c
         THEN (CHOOSE i \in 1..16 : HexUpper[i] = c) - 1
         ELSE -1

\* hex::decode: Err on an odd length or a character that is no hex digit (either
\* letter case is accepted), else one byte per pair of characters.
hex_decode(s) ==
    IF Len(s) % 2 # 0 THEN Err
    ELSE IF \E i \in 1..Len(s) : HexVal(s[i]) = -1 THEN Err
    ELSE Some([i \in 1..(Len(s) \div 2) |-> 16 * HexVal(s[2 * i - 1]) + HexVal(s[2 * i])])

\* hex::encode (lower case), and the same digits in upper case.
HexEncodeWith(digits, bytes) ==
    [i \in 1..(2 * Len(bytes)) |->
        LET b == bytes[(i + 1) \div 2]
        IN  IF i % 2 = 1 THEN digits[(b \div 16) + 1] ELSE digits[(b % 16) + 1]]

hex_encode(bytes) == HexEncodeWith(HexLower, bytes)

hex_encode_upper(bytes) == HexEncodeWith(HexUpper, bytes)

\* The same digits with the letter case alternating.
hex_encode_mixed(bytes) ==
    [i \in 1..(2 * Len(bytes)) |->
        IF i % 2 = 1 THEN hex_encode_upper(bytes)[i] ELSE hex_encode(bytes)[i]]

(***************************************************************************)
(* The keyed hash.  HMAC-SHA256 is taken as an ideal keyed hash: a fixed   *)
(* function of the key bytes and the message bytes that has no collision   *)
(* on the inputs drawn here, DigestLen bytes wide.                         *)
(***************************************************************************)
\* The byte values bodies and secrets are drawn from.
ByteVals == {0, 1, 2}

RECURSIVE BytesCode(_)
BytesCode(s) ==
    IF s = <<>> THEN 0 ELSE (Head(s) + 1) + (Cardinality(ByteVals) + 1) * BytesCode(Tail(s))

RECURSIVE Pow256(_)
Pow256(n) == IF n = 0 THEN 1 ELSE 256 * Pow256(n - 1)

\* mac = HmacSha256::new_from_slice(key); mac.update(msg); mac.finalize().into_bytes()
HmacSha256(key, msg) ==
    LET a == BytesCode(key)
        b == BytesCode(msg)
        n == ((a + b) * (a + b + 1)) \div 2 + b
        m == (n * 40503) % Pow256(DigestLen)
    IN  [i \in 1..DigestLen |-> (m \div Pow256(DigestLen - i)) % 256]

\* ct_eq with the bug of comparing the lengths alone.
ct_eq_len_only(a, b) == Len(a) = Len(b)

\* subtle's ct_eq on byte slices: equal lengths and equal bytes.
ct_eq(a, b) == Len(a) = Len(b) /\ \A i \in 1..Len(a) : a[i] = b[i]

(***************************************************************************)
(* Headers.  A HeaderMap is a sequence of <<name, value>> pairs in the     *)
(* order received; names are lower case (the http crate normalises them).  *)
(***************************************************************************)
\* HeaderMap::get: the first value of the name, or None.
HeaderGet(headers, name) ==
    IF \E i \in 1..Len(headers) : headers[i][1] = name
    THEN Some(headers[CHOOSE i \in 1..Len(headers) :
                         /\ headers[i][1] = name
                         /\ \A j \in 1..(i - 1) : headers[j][1] # name][2])
    ELSE None

extract_signature(headers) ==
    LET hv == HeaderGet(headers, "x-hub-signature-256")
    IN  IF ~hv.ok THEN None
        ELSE IF ~to_str(hv.v).ok THEN None
        ELSE Some(trim_start_matches(to_str(hv.v).v, Sha256Prefix))

\* is_authorized with the bug of accepting a request that has no signature.
is_authorized_fail_open(headers, body, secret) ==
    LET header_signature == extract_signature(headers)
    IN  IF ~header_signature.ok THEN TRUE
        ELSE LET decoded == hex_decode(header_signature.v)
             IN  IF ~decoded.ok THEN FALSE
                 ELSE ct_eq(decoded.v, HmacSha256(secret, body))

is_authorized(headers, body, secret) ==
    LET header_signature == extract_signature(headers)
    IN  IF ~header_signature.ok THEN FALSE
        ELSE LET calculated_signature == HmacSha256(secret, body)
                 decoded == hex_decode(header_signature.v)
             IN  IF ~decoded.ok THEN FALSE
                 ELSE ct_eq(decoded.v, calculated_signature)

(***************************************************************************)
(* Inputs of the signature verifier.                                       *)
(***************************************************************************)
\* Raw bodies: every byte string of at most MaxBodyLen bytes.
RawBodies == UNION {[1..n -> ByteVals] : n \in 0..MaxBodyLen}

\* Shared secrets.
Secrets == {<<1>>, <<2>>, <<1, 2>>}

\* The bodies that differ from b in exactly one byte.
SingleByteMutations(b) ==
    UNION {{[b EXCEPT ![i] = x] : x \in ByteVals \ {b[i]}} : i \in 1..Len(b)}

\* The text "sha256=" k times.
RECURSIVE PrefixTimes(_)
PrefixTimes(k) == IF k = 0 THEN <<>> ELSE Sha256Prefix \o PrefixTimes(k - 1)

SigName == "x-hub-signature-256"

\* The header GitHub sends for body b signed with secret s.
SigValue(b, s) == Sha256Prefix \o hex_encode(HmacSha256(s, b))

HeadersWithSig(b, s) == <<<<SigName, SigValue(b, s)>>>>

\* Digests a request for body b may carry: the right one, those of the
\* single-byte mutations of b, and those made with another secret.
CandidateDigests(b, s) ==
    {HmacSha256(s, b)}
        \cup {HmacSha256(s, m) : m \in SingleByteMutations(b)}
        \cup {HmacSha256(t, b) : t \in Secrets \ {s}}

\* Well-formed signature values of digest d: any number of prefixes, either case.
WellFormedValues(d) ==
    {PrefixTimes(k) \o hex_encode(d) : k \in 0..MaxPrefix}
        \cup {PrefixTimes(k) \o hex_encode_upper(d) : k \in 0..MaxPrefix}
        \cup {PrefixTimes(k) \o hex_encode_mixed(d) : k \in 0..MaxPrefix}

\* Values that are not a signature of digest d.
MalformedValues(d) ==
    LET h == hex_encode(d)
    IN  { Sha256Prefix \o SubSeq(h, 1, Len(h) - 1),
          Sha256Prefix \o <<"g">> \o Tail(h),
          Sha256Prefix \o SubSeq(h, 1, Len(h) - 2),
          Sha256Prefix \o h \o <<"0", "0">>,
          Sha256Prefix,
          <<"s", "h", "a", "2", "5", "6">> \o h,
          h \o Sha256Prefix,
          Sha256Prefix \o h \o <<NonAscii>>,
          <<" ">> \o Sha256Prefix \o h }

\* The header maps drawn for body b and secret s.
AuthHeaders(b, s) ==
    LET good == SigValue(b, s)
        vals == UNION {WellFormedValues(d) : d \in CandidateDigests(b, s)}
                    \cup MalformedValues(HmacSha256(s, b))
    IN  {<<>>, <<<<"x-hub-signature", good>>>>,
         <<<<SigName, good>>, <<SigName, Sha256Prefix>>>>,
         <<<<SigName, Sha256Prefix>>, <<SigName, good>>>>}
            \cup {<<<<SigName, v>>>> : v \in vals}
            \cup {<<<<"x-github-event", StrIssues>>, <<SigName, v>>>> : v \in vals}

(***************************************************************************)
(* The configuration, and the state of a specification that handles no     *)
(* request / applies no function.                                          *)
(***************************************************************************)
\* Data.config.github: read by handle_gh, never written.
Config ==
    [webhook_secret |-> <<1>>, activity_webhook |-> "activity", issues_webhook |-> "issues"]

NoRequests ==
    /\ config = Config
    /\ req = <<>>
    /\ pc = <<>>
    /\ authorized = <<>>
    /\ trace = <<>>
    /\ out = <<>>
    /\ status = <<>>

NoFunction ==
    /\ fn = "none"
    /\ fn_in = None
    /\ fn_out = None

(***************************************************************************)
(* JSON.  A body is carried with what serde_json makes of its bytes: kind  *)
(* "invalid" (from_slice fails), "array" (a value that is no object) or    *)
(* "object" with the members the handler reads.  A member is Absent, Null, *)
(* a Number (any value that is neither text nor an object), Str(s) or an   *)
(* object; wellformed says whether the members of an object that the       *)
(* handler does not read have the types the structs of lines 143-219 need. *)
(***************************************************************************)
Absent == [t |-> "absent"]

Null == [t |-> "null"]

Number == [t |-> "number"]

Str(s) == [t |-> "string", s |-> s]

\* Value::get(key) of the top-level value: None unless it is an object with the key.
JsonGet(json, key) ==
    IF json.kind # "object" THEN None
    ELSE IF json[key].t = "absent" THEN None
    ELSE Some(json[key])

\* Value::get(key) of a member.
MemberGet(value, key) ==
    IF value.t # "object" THEN None
    ELSE IF value[key].t = "absent" THEN None
    ELSE Some(value[key])

\* Value::as_str
as_str(value) == IF value.t = "string" THEN Some(value.s) ELSE None

(***************************************************************************)
(* GithubEvent and GithubIssuesAction.                                     *)
(***************************************************************************)
\* GithubEvent::from_str
GithubEvent_from_str(s) ==
    IF s = StrIssues THEN Some("Issues")
    ELSE IF s = StrPullRequest THEN Some("PullRequest")
    ELSE Err

IssuesActions ==
    {"assigned", "closed", "deleted", "demilestoned", "edited", "labeled", "locked",
     "milestoned", "opened", "pinned", "reopened", "transferred", "unassigned",
     "unlabeled", "unlocked", "unpinned"}

\* GithubIssuesAction::from_str
GithubIssuesAction_from_str(s) == IF s \in IssuesActions THEN Some(s) ELSE Err

\* is_label with the bug of matching every action.
is_label_always(action) == TRUE

\* GithubIssuesAction::is_label
is_label(action) == action \in {"labeled", "unlabeled"}

\* is_issues_event with the bug of matching every event from_str knows.
is_issues_event_any_known(headers) ==
    LET h == HeaderGet(headers, "x-github-event")
    IN  IF ~h.ok THEN FALSE
        ELSE IF ~to_str(h.v).ok THEN FALSE
        ELSE GithubEvent_from_str(to_str(h.v).v).ok

is_issues_event(headers) ==
    LET h == HeaderGet(headers, "x-github-event")
    IN  IF ~h.ok THEN FALSE
        ELSE IF ~to_str(h.v).ok THEN FALSE
        ELSE LET e == GithubEvent_from_str(to_str(h.v).v)
             IN  e.ok /\ e.v = "Issues"

get_issue_action(json) ==
    IF json.kind = "invalid" THEN Err
    ELSE LET a == JsonGet(json, "action")
         IN  IF ~a.ok THEN Err
             ELSE IF ~as_str(a.v).ok THEN Err
             ELSE GithubIssuesAction_from_str(as_str(a.v).v)

(***************************************************************************)
(* GithubIssueLabelEvent.                                                  *)
(***************************************************************************)
\* serde's decode of GithubUser: an object whose id and login decode, with
\* type absent, null or text.
DecodeUser(value) ==
    IF value.t = "object" /\ value.wellformed /\ value.type.t \in {"absent", "null", "string"}
    THEN Some([user_type |-> IF value.type.t = "string" THEN Some(value.type.s) ELSE None])
    ELSE Err

\* serde's decode of GithubIssue: an object whose members decode, state being text.
DecodeIssue(value) ==
    IF value.t = "object" /\ value.wellformed /\ value.state.t = "string"
    THEN Some([state |-> value.state.s])
    ELSE Err

\* serde's decode of Option<GithubIssueLabel>: None when absent or null.
DecodeLabel(value) ==
    IF value.t \in {"absent", "null"} THEN Some(None)
    ELSE IF value.t = "object" /\ value.wellformed /\ value.name.t = "string"
    THEN Some(Some([name |-> value.name.s]))
    ELSE Err

\* serde's decode of GithubRepository.
DecodeRepository(value) ==
    IF value.t = "object" /\ value.wellformed THEN Some([name |-> "repository"]) ELSE Err

\* serde_json::from_slice::<GithubIssueLabelEvent>
DecodeLabelEvent(json) ==
    IF json.kind # "object" THEN Err
    ELSE IF json.action.t # "string" THEN Err
    ELSE IF ~DecodeIssue(json.issue).ok THEN Err
    ELSE IF ~DecodeLabel(json.label).ok THEN Err
    ELSE IF ~DecodeRepository(json.repository).ok THEN Err
    ELSE IF ~DecodeUser(json.sender).ok THEN Err
    ELSE Some([action |-> json.action.s,
               issue |-> DecodeIssue(json.issue).v,
               label |-> DecodeLabel(json.label).v,
               repository |-> DecodeRepository(json.repository).v,
               sender |-> DecodeUser(json.sender).v])

\* Label names that contain the text "good first issue".
ContainsGoodFirstIssue == {"good first issue", "not a good first issue"}

\* should_report with the bug of a substring test on the label name.
should_report_contains(event) ==
    /\ event.action = "labeled"
    /\ event.issue.state = "open"
    /\ event.label.ok
    /\ event.label.v.name \in ContainsGoodFirstIssue

\* GithubIssueLabelEvent::should_report
should_report(event) ==
    /\ event.action = "labeled"
    /\ event.issue.state = "open"
    /\ IF event.label.ok THEN event.label.v.name = "good first issue" ELSE FALSE

\* is_human_user with the bug of taking a sender without a type for a human.
is_human_user_default_true(json) ==
    LET sender == JsonGet(json, "sender")
    IN  IF ~sender.ok THEN FALSE
        ELSE LET user_type == MemberGet(sender.v, "type")
             IN  IF ~user_type.ok THEN TRUE
                 ELSE IF ~as_str(user_type.v).ok THEN FALSE
                 ELSE as_str(user_type.v).v = "User"

is_human_user(json) ==
    LET sender == JsonGet(json, "sender")
    IN  IF ~sender.ok THEN FALSE
        ELSE LET user_type == MemberGet(sender.v, "type")
             IN  IF ~user_type.ok THEN FALSE
                 ELSE IF ~as_str(user_type.v).ok THEN FALSE
                 ELSE as_str(user_type.v).v = "User"

(***************************************************************************)
(* The header copy of post_to_activity_webhook.                            *)
(***************************************************************************)
\* HeaderMap::insert: the value replaces every value the name had.
HeaderInsert(headers, name, value) ==
    IF \E i \in 1..Len(headers) : headers[i][1] = name
    THEN [i \in 1..Len(headers) |->
            IF headers[i][1] = name THEN <<name, value>> ELSE headers[i]]
    ELSE Append(headers, <<name, value>>)

\* The loop with the bug of stripping authorization alone.
RECURSIVE CopyHeaders_keeps_host(_, _)
CopyHeaders_keeps_host(headers, n) ==
    IF n = 0 THEN <<>>
    ELSE LET rest == CopyHeaders_keeps_host(headers, n - 1)
             key == headers[n][1]
         IN  IF key # "authorization"
             THEN HeaderInsert(rest, key, headers[n][2])
             ELSE rest

\* The loop of lines 318-322 over the first n headers.
RECURSIVE CopyHeaders(_, _)
CopyHeaders(headers, n) ==
    IF n = 0 THEN <<>>
    ELSE LET rest == CopyHeaders(headers, n - 1)
             key == headers[n][1]
         IN  IF key # "authorization" /\ key # "host"
             THEN HeaderInsert(rest, key, headers[n][2])
             ELSE rest

ForwardHeaders(headers) == CopyHeaders(headers, Len(headers))

(***************************************************************************)
(* Requests.                                                               *)
(***************************************************************************)
StrJson == <<"j", "s", "o", "n">>

StrToken == <<"t", "o", "k", "e", "n">>

StrExample == <<"e", "x", "a", "m", "p", "l", "e">>

\* Bodies of the requests the handler is run on.
RequestBodies == {<<1>>, <<2, 0>>}

UserObject(type, wellformed) == [t |-> "object", type |-> type, wellformed |-> wellformed]

IssueObject(state, wellformed) == [t |-> "object", state |-> state, wellformed |-> wellformed]

LabelObject(name, wellformed) == [t |-> "object", name |-> name, wellformed |-> wellformed]

RepositoryObject(wellformed) == [t |-> "object", wellformed |-> wellformed]

ActionMembers ==
    {Absent, Number, Str("Labeled"), Str("synchronize")}
        \cup {Str(a) : a \in IssuesActions}

IssueMembers ==
    {Absent, IssueObject(Str("open"), TRUE), IssueObject(Str("closed"), TRUE),
     IssueObject(Str("Open"), TRUE), IssueObject(Str("open"), FALSE),
     IssueObject(Number, TRUE)}

LabelMembers ==
    {Absent, Null, LabelObject(Str("good first issue"), TRUE),
     LabelObject(Str("good-first-issue"), TRUE), LabelObject(Str("Good First Issue"), TRUE),
     LabelObject(Str("not a good first issue"), TRUE),
     LabelObject(Str("good first issue"), FALSE)}

RepositoryMembers == {Absent, RepositoryObject(TRUE)}

SenderMembers ==
    {Absent, Number, UserObject(Absent, TRUE), UserObject(Number, TRUE),
     UserObject(Str("User"), TRUE), UserObject(Str("Bot"), TRUE),
     UserObject(Str("Organization"), TRUE), UserObject(Str("user"), TRUE),
     UserObject(Str("User"), FALSE)}

JsonObject(action, issue, label, repository, sender) ==
    [kind |-> "object", action |-> action, issue |-> issue, label |-> label,
     repository |-> repository, sender |-> sender]

\* Bodies that are no JSON object.
NonObjects == {[kind |-> "invalid"], [kind |-> "array"]}

\* Payloads of issues events: every member varies, the sender among three.
IssuesPayloads ==
    NonObjects \cup
    {JsonObject(a, i, l, p, u) :
        a \in ActionMembers, i \in IssueMembers, l \in LabelMembers,
        p \in RepositoryMembers,
        u \in {UserObject(Str("User"), TRUE), UserObject(Str("Bot"), TRUE),
               UserObject(Number, TRUE)}}

\* Payloads of other events: the sender varies, in an event that reports or not.
GenericPayloads ==
    NonObjects \cup
    {JsonObject(a, IssueObject(Str("open"), TRUE), l, RepositoryObject(TRUE), u) :
        a \in {Str("labeled"), Str("closed"), Absent},
        l \in {Absent, LabelObject(Str("good first issue"), TRUE)},
        u \in SenderMembers}

\* A payload that reports on the issues path and is forwarded on the other.
ReportingPayload ==
    JsonObject(Str("labeled"), IssueObject(Str("open"), TRUE),
               LabelObject(Str("good first issue"), TRUE), RepositoryObject(TRUE),
               UserObject(Str("User"), TRUE))

EventName == "x-github-event"

IssuesEventHeaders == {<<<<EventName, StrIssues>>>>}

OtherEventHeaders ==
    {<<>>, <<<<EventName, StrPullRequest>>>>, <<<<EventName, StrPush>>>>,
     <<<<EventName, StrIssuesUpper>>>>, <<<<EventName, <<NonAscii>>>>>>,
     <<<<EventName, StrPush>>, <<EventName, StrIssues>>>>}

\* Headers that come with a request besides the two the handler reads.
ExtraHeaders ==
    {<<>>,
     <<<<"authorization", StrToken>>, <<"content-type", StrJson>>, <<"host", StrExample>>>>,
     <<<<"x-forwarded-for", StrExample>>, <<"host", StrExample>>,
       <<"x-forwarded-for", StrToken>>>>}

\* Signature headers that is_authorized accepts for body b, and ones it refuses.
ValidSigHeaders(b) ==
    {<<<<SigName, SigValue(b, Config.webhook_secret)>>>>}

InvalidSigHeaders(b) ==
    {<<>>,
     <<<<SigName, Sha256Prefix \o <<"z", "z">>>>>>,
     <<<<SigName, SigValue(b, <<2>>)>>>>,
     <<<<SigName, SigValue(<<0>> \o b, Config.webhook_secret)>>>>}

Request(sig, event, extra, body, json) ==
    [headers |-> extra \o sig \o event, body |-> body, json |-> json]

\* The requests a specification draws from.
Requests ==
    {Request(s[1], e, x, s[2], j) :
        s \in UNION {ValidSigHeaders(b) \X {b} : b \in RequestBodies},
        e \in IssuesEventHeaders, x \in {<<>>}, j \in IssuesPayloads}
    \cup
    {Request(s[1], e, x, s[2], j) :
        s \in UNION {ValidSigHeaders(b) \X {b} : b \in RequestBodies},
        e \in OtherEventHeaders, x \in ExtraHeaders, j \in GenericPayloads}
    \cup
    {Request(s[1], e, x, s[2], j) :
        s \in UNION {InvalidSigHeaders(b) \X {b} : b \in RequestBodies},
        e \in IssuesEventHeaders \cup OtherEventHeaders, x \in ExtraHeaders,
        j \in {ReportingPayload, [kind |-> "invalid"]}}

(***************************************************************************)
(* handle_gh, one step at a time.                                          *)
(***************************************************************************)
Step(r, name) == trace' = [trace EXCEPT ![r] = Append(@, name)]

\* return the status code
Return(r, code) ==
    /\ pc' = [pc EXCEPT ![r] = "done"]
    /\ status' = [status EXCEPT ![r] = code]

Goto(r, label) ==
    /\ pc' = [pc EXCEPT ![r] = label]
    /\ UNCHANGED status

Call(r, call) == out' = [out EXCEPT ![r] = Append(@, call)]

\* Lines 228-231 with the bug of logging the failure and going on.
Authorize_no_return(r) ==
    /\ r \in DOMAIN req
    /\ pc[r] = "start"
    /\ authorized' = [authorized EXCEPT ![r] =
            Some(is_authorized(req[r].headers, req[r].body, config.webhook_secret))]
    /\ Step(r, "is_authorized")
    /\ Goto(r, "classify")
    /\ UNCHANGED <<config, req, out>>
    /\ UNCHANGED fnVars

\* Lines 228-231 with the bug of a verdict kept in state that the requests
\* share: once a request was authorized, the next ones are taken to be.
Authorize_shared_verdict(r) ==
    /\ r \in DOMAIN req
    /\ pc[r] = "start"
    /\ LET ok == \/ is_authorized(req[r].headers, req[r].body, config.webhook_secret)
                 \/ \E o \in DOMAIN req : authorized[o].ok /\ authorized[o].v
       IN  /\ authorized' = [authorized EXCEPT ![r] = Some(ok)]
           /\ IF ok THEN Goto(r, "classify") ELSE Return(r, 401)
    /\ Step(r, "is_authorized")
    /\ UNCHANGED <<config, req, out>>
    /\ UNCHANGED fnVars

\* Lines 228-231: refuse the request unless it is authorized.
Authorize(r) ==
    /\ r \in DOMAIN req
    /\ pc[r] = "start"
    /\ LET ok == is_authorized(req[r].headers, req[r].body, config.webhook_secret)
       IN  /\ authorized' = [authorized EXCEPT ![r] = Some(ok)]
           /\ IF ok THEN Goto(r, "classify") ELSE Return(r, 401)
    /\ Step(r, "is_authorized")
    /\ UNCHANGED <<config, req, out>>
    /\ UNCHANGED fnVars

\* Line 233: the issues path or the generic one.
Classify(r) ==
    /\ r \in DOMAIN req
    /\ pc[r] = "classify"
    /\ IF is_issues_event(req[r].headers) THEN Goto(r, "probe") ELSE Goto(r, "parse")
    /\ Step(r, "is_issues_event")
    /\ UNCHANGED <<config, req, authorized, out>>
    /\ UNCHANGED fnVars

\* IssuesStatus with the bug of answering 200 whatever handle_issues returned.
IssuesStatus_always_ok(ok) == 200

\* IssuesStatus with the bug of answering an error of handle_issues with 400.
IssuesStatus_bad_request(ok) == IF ok THEN 200 ELSE 400

\* The status handle_gh gives for what handle_issues returned (lines 234-240).
IssuesStatus(ok) == IF ok THEN 200 ELSE 500

\* Lines 339-341 with the bug of going on to the generic path when the action
\* is no label action.
Probe_falls_through(r) ==
    /\ r \in DOMAIN req
    /\ pc[r] = "probe"
    /\ LET action == get_issue_action(req[r].json)
       IN  IF ~action.ok THEN Return(r, IssuesStatus(FALSE))
           ELSE IF ~is_label(action.v) THEN Goto(r, "parse")
           ELSE Goto(r, "decode")
    /\ Step(r, "get_issue_action")
    /\ UNCHANGED <<config, req, authorized, out>>
    /\ UNCHANGED fnVars

\* Lines 339-341: the probe of the action.
Probe(r) ==
    /\ r \in DOMAIN req
    /\ pc[r] = "probe"
    /\ LET action == get_issue_action(req[r].json)
       IN  IF ~action.ok THEN Return(r, IssuesStatus(FALSE))
           ELSE IF ~is_label(action.v) THEN Return(r, IssuesStatus(TRUE))
           ELSE Goto(r, "decode")
    /\ Step(r, "get_issue_action")
    /\ UNCHANGED <<config, req, authorized, out>>
    /\ UNCHANGED fnVars

\* Lines 343-345: the full decode, and the decision to report.
Decode(r) ==
    /\ r \in DOMAIN req
    /\ pc[r] = "decode"
    /\ LET label_event == DecodeLabelEvent(req[r].json)
       IN  IF ~label_event.ok THEN Return(r, IssuesStatus(FALSE))
           ELSE IF should_report(label_event.v) THEN Goto(r, "notify")
           ELSE Return(r, IssuesStatus(TRUE))
    /\ Step(r, "decode_label_event")
    /\ UNCHANGED <<config, req, authorized, out>>
    /\ UNCHANGED fnVars

\* Lines 346-351 and 372-373: post_good_first_issue is called and resolves the
\* webhook from its URL, a GET that succeeds or fails.
Notify(r) ==
    /\ r \in DOMAIN req
    /\ pc[r] = "notify"
    /\ \E result \in {"ok", "error"} :
        /\ Call(r, [sink |-> config.issues_webhook, method |-> "GET",
                    headers |-> <<>>, body |-> <<>>, result |-> result])
        /\ IF result = "ok" THEN Goto(r, "execute") ELSE Return(r, IssuesStatus(FALSE))
    /\ Step(r, "post_good_first_issue")
    /\ UNCHANGED <<config, req, authorized>>
    /\ UNCHANGED fnVars

\* Lines 397-401: the embed is posted to the webhook, once.
Execute(r) ==
    /\ r \in DOMAIN req
    /\ pc[r] = "execute"
    /\ \E result \in {"ok", "error"} :
        /\ Call(r, [sink |-> config.issues_webhook, method |-> "POST",
                    headers |-> <<>>, body |-> <<"embed">>, result |-> result])
        /\ Return(r, IssuesStatus(result = "ok"))
    /\ Step(r, "execute")
    /\ UNCHANGED <<config, req, authorized>>
    /\ UNCHANGED fnVars

\* Lines 243-249: the body is parsed as JSON.
ParseJson(r) ==
    /\ r \in DOMAIN req
    /\ pc[r] = "parse"
    /\ IF req[r].json.kind = "invalid" THEN Return(r, 400) ELSE Goto(r, "sender")
    /\ Step(r, "from_slice")
    /\ UNCHANGED <<config, req, authorized, out>>
    /\ UNCHANGED fnVars

\* Lines 251-253: events of senders that are no human user end here.
SenderCheck(r) ==
    /\ r \in DOMAIN req
    /\ pc[r] = "sender"
    /\ IF is_human_user(req[r].json) THEN Goto(r, "forward") ELSE Return(r, 200)
    /\ Step(r, "is_human_user")
    /\ UNCHANGED <<config, req, authorized, out>>
    /\ UNCHANGED fnVars

\* The results of the POST of post_to_activity_webhook: sent and answered with
\* success, not sent (line 329), answered with another status (lines 331-333).
ForwardResults == {"ok", "connect_error", "http_error"}

\* Lines 255-264 with the bug of sending again after a failure.
Forward_retry(r) ==
    /\ r \in DOMAIN req
    /\ pc[r] = "forward"
    /\ \E result \in ForwardResults :
        LET call == [sink |-> config.activity_webhook, method |-> "POST",
                     headers |-> ForwardHeaders(req[r].headers),
                     body |-> req[r].body, result |-> result]
        IN  /\ Call(r, call)
            /\ IF result = "ok" THEN Return(r, 200) ELSE Goto(r, "forward")
    /\ Len(out[r]) < 2
    /\ Step(r, "post_to_activity_webhook")
    /\ UNCHANGED <<config, req, authorized>>
    /\ UNCHANGED fnVars

\* Lines 255-264 and 311-336: the raw forward, and its status.
Forward(r) ==
    /\ r \in DOMAIN req
    /\ pc[r] = "forward"
    /\ \E result \in ForwardResults :
        /\ Call(r, [sink |-> config.activity_webhook, method |-> "POST",
                    headers |-> ForwardHeaders(req[r].headers),
                    body |-> req[r].body, result |-> result])
        /\ IF result = "ok" THEN Return(r, 200) ELSE Return(r, 500)
    /\ Step(r, "post_to_activity_webhook")
    /\ UNCHANGED <<config, req, authorized>>
    /\ UNCHANGED fnVars

\* One request, not yet handled.
Init ==
    /\ config = Config
    /\ \E q \in Requests : req = <<q>>
    /\ pc = <<"start">>
    /\ authorized = <<None>>
    /\ trace = <<<<>>>>
    /\ out = <<<<>>>>
    /\ status = <<0>>
    /\ NoFunction

\* The requests in flight at once: handle_gh runs once per request, as a task
\* of its own.
RequestIds == {1, 2}

Next ==
    \E r \in RequestIds :
        \/ Authorize(r)
        \/ Classify(r)
        \/ Probe(r)
        \/ Decode(r)
        \/ Notify(r)
        \/ Execute(r)
        \/ ParseJson(r)
        \/ SenderCheck(r)
        \/ Forward(r)

Spec == Init /\ [][Next]_vars

(***************************************************************************)
(* Properties of handle_gh.                                                *)
(***************************************************************************)
Done(r) == r \in DOMAIN req /\ pc[r] = "done"

Took(r, name) == \E i \in 1..Len(trace[r]) : trace[r][i] = name

Times(r, name) == Cardinality({i \in 1..Len(trace[r]) : trace[r][i] = name})

CallsTo(r, sink, method) ==
    Cardinality({i \in 1..Len(out[r]) : out[r][i].sink = sink /\ out[r][i].method = method})

Authorized(r) == authorized[r].ok /\ authorized[r].v = TRUE

Refused(r) == authorized[r].ok /\ authorized[r].v = FALSE

\* The request names the event "issues" in the first x-github-event header.
NamesIssues(r) ==
    \E i \in 1..Len(req[r].headers) :
        /\ req[r].headers[i] = <<EventName, StrIssues>>
        /\ \A j \in 1..(i - 1) : req[r].headers[j][1] # EventName

\* The action member of the body is the text a.
ActionIs(r, a) ==
    /\ req[r].json.kind = "object"
    /\ req[r].json.action = Str(a)

\* The steps that interpret the payload.
PayloadSteps == {"get_issue_action", "decode_label_event", "from_slice", "is_human_user"}

\* C1: the payload is interpreted and a sink is called only after is_authorized
\* returned true for the request; when it returned false the request ends
\* with 401, with no further step and no outbound call.
C1_VerifyFirst ==
    \A r \in DOMAIN req :
        /\ ((\E s \in PayloadSteps : Took(r, s)) \/ out[r] # <<>>)
                => (Authorized(r) /\ trace[r][1] = "is_authorized")
        /\ Refused(r) =>
                /\ pc[r] = "done"
                /\ status[r] = 401
                /\ trace[r] = <<"is_authorized">>
                /\ out[r] = <<>>

\* A request that would have been reported was refused with 401.
C1_Witness ==
    \E r \in DOMAIN req :
        /\ Refused(r)
        /\ NamesIssues(r)
        /\ req[r].json = ReportingPayload
        /\ status[r] = 401

(***************************************************************************)
(* The signature verifier applied to inputs drawn from the sets above.     *)
(***************************************************************************)
InitAuth ==
    /\ NoRequests
    /\ fn = "is_authorized"
    /\ \E b \in RawBodies, s \in Secrets :
        \E h \in AuthHeaders(b, s) :
            fn_in = [headers |-> h, body |-> b, secret |-> s]
    /\ fn_out = None

ApplyIsAuthorized ==
    /\ fn = "is_authorized"
    /\ ~fn_out.ok
    /\ fn_out' = Some(is_authorized(fn_in.headers, fn_in.body, fn_in.secret))
    /\ UNCHANGED <<fn, fn_in>>
    /\ UNCHANGED reqVars

NextAuth == ApplyIsAuthorized

SpecAuth == InitAuth /\ [][NextAuth]_vars

AuthApplied == fn = "is_authorized" /\ fn_out.ok

\* C2: with the header carrying the HMAC-SHA256 of a body B under the secret S,
\* is_authorized is true for the body B and false for every body that differs
\* from B in one byte.
C2_SignatureSensitivity ==
    AuthApplied =>
        \A B \in RawBodies :
            fn_in.headers = HeadersWithSig(B, fn_in.secret) =>
                /\ (fn_in.body = B => fn_out.v = TRUE)
                /\ (fn_in.body \in SingleByteMutations(B) => fn_out.v = FALSE)

\* A request whose signature is that of a body one byte away has been refused.
C2_Witness ==
    /\ AuthApplied
    /\ \E B \in RawBodies :
        /\ fn_in.headers = HeadersWithSig(B, fn_in.secret)
        /\ fn_in.body \in SingleByteMutations(B)
        /\ Len(B) = MaxBodyLen
    /\ fn_out.v = FALSE

HexChars == {HexLower[i] : i \in 1..16} \cup {HexUpper[i] : i \in 1..16}

IsHexText(s) == Len(s) % 2 = 0 /\ \A i \in 1..Len(s) : s[i] \in HexChars

\* The first value of the signature header is text.
SigIsText(headers) ==
    /\ \E i \in 1..Len(headers) : headers[i][1] = SigName
    /\ \A i \in 1..Len(headers) :
        (headers[i][1] = SigName /\ \A j \in 1..(i - 1) : headers[j][1] # SigName)
            => \A k \in 1..Len(headers[i][2]) : headers[i][2][k] # NonAscii

\* C3: is_authorized yields a boolean, and that boolean is false when the
\* signature header is absent, is not text, does not decode as hex once the
\* prefix is removed, or carries the digest made with another secret.
C3_FailsClosed ==
    AuthApplied =>
        /\ fn_out.v \in BOOLEAN
        /\ (\A i \in 1..Len(fn_in.headers) : fn_in.headers[i][1] # SigName)
                => fn_out.v = FALSE
        /\ (~SigIsText(fn_in.headers)) => fn_out.v = FALSE
        /\ (SigIsText(fn_in.headers)
                /\ ~IsHexText(trim_start_matches(
                        HeaderGet(fn_in.headers, SigName).v, Sha256Prefix)))
                => fn_out.v = FALSE
        /\ \A t \in Secrets \ {fn_in.secret} :
                fn_in.headers = HeadersWithSig(fn_in.body, t) => fn_out.v = FALSE

\* A signature made with another secret has been refused.
C3_Witness ==
    /\ AuthApplied
    /\ \E t \in Secrets \ {fn_in.secret} :
            fn_in.headers = HeadersWithSig(fn_in.body, t)
    /\ fn_out.v = FALSE

(***************************************************************************)
(* should_report applied to decoded events drawn from the sets below.      *)
(***************************************************************************)
ReportActions == {"labeled", "unlabeled", "Labeled", "closed", "opened"}

ReportStates == {"open", "closed", "Open", "OPEN"}

ReportLabels ==
    {None} \cup
    {Some([name |-> n]) :
        n \in {"good first issue", "good-first-issue", "Good First Issue",
               "not a good first issue", "good first issue ", "bug"}}

InitReport ==
    /\ NoRequests
    /\ fn = "should_report"
    /\ \E a \in ReportActions, st \in ReportStates, l \in ReportLabels :
        fn_in = [action |-> a, issue |-> [state |-> st], label |-> l]
    /\ fn_out = None

ApplyShouldReport ==
    /\ fn = "should_report"
    /\ ~fn_out.ok
    /\ fn_out' = Some(should_report(fn_in))
    /\ UNCHANGED <<fn, fn_in>>
    /\ UNCHANGED reqVars

NextReport == ApplyShouldReport

SpecReport == InitReport /\ [][NextReport]_vars

ReportApplied == fn = "should_report" /\ fn_out.ok

FullyDecodable(r) == DecodeLabelEvent(req[r].json).ok

\* The three conditions of a report, read off the body.
MeetsReportConditions(r) ==
    /\ ActionIs(r, "labeled")
    /\ req[r].json.issue.t = "object"
    /\ req[r].json.issue.state = Str("open")
    /\ req[r].json.label.t = "object"
    /\ req[r].json.label.name = Str("good first issue")

\* Every outbound call made for r succeeded.
AllCallsOk(r) == \A i \in 1..Len(out[r]) : out[r][i].result = "ok"

\* C5: an authorized issues event with a label action and a body that decodes
\* in full calls post_good_first_issue exactly once when the report conditions
\* hold (one POST to the issues sink once the webhook is resolved, none to the
\* activity sink) and answers 200 when that call succeeds; otherwise it makes
\* no outbound call and answers 200.
C5_ReportOnce ==
    \A r \in DOMAIN req :
        (/\ Done(r) /\ Authorized(r) /\ NamesIssues(r)
         /\ (ActionIs(r, "labeled") \/ ActionIs(r, "unlabeled"))
         /\ FullyDecodable(r))
        => IF MeetsReportConditions(r)
           THEN /\ Times(r, "post_good_first_issue") = 1
                /\ CallsTo(r, config.issues_webhook, "GET") = 1
                /\ CallsTo(r, config.issues_webhook, "POST")
                        = (IF out[r][1].result = "ok" THEN 1 ELSE 0)
                /\ CallsTo(r, config.activity_webhook, "POST") = 0
                /\ AllCallsOk(r) => status[r] = 200
                /\ status[r] = 200 => AllCallsOk(r)
           ELSE /\ out[r] = <<>>
                /\ status[r] = 200

\* A reporting event was posted to the issues sink and answered with 200.
C5_Witness ==
    \E r \in DOMAIN req :
        /\ Done(r) /\ Authorized(r) /\ NamesIssues(r)
        /\ MeetsReportConditions(r)
        /\ CallsTo(r, config.issues_webhook, "POST") = 1
        /\ AllCallsOk(r)
        /\ status[r] = 200

\* C6: an authorized issues event whose action is a known action other than
\* labeled and unlabeled ends with 200 without the full decode and without an
\* outbound call, whatever the other members of the body are.
C6_ProbeShortCircuits ==
    \A r \in DOMAIN req :
        (/\ Done(r) /\ Authorized(r) /\ NamesIssues(r)
         /\ \E a \in IssuesActions \ {"labeled", "unlabeled"} : ActionIs(r, a))
        => /\ ~Took(r, "decode_label_event")
           /\ out[r] = <<>>
           /\ status[r] = 200

\* A closed event whose other members do not decode ended with 200.
C6_Witness ==
    \E r \in DOMAIN req :
        /\ Done(r) /\ Authorized(r) /\ NamesIssues(r)
        /\ ActionIs(r, "closed")
        /\ req[r].json.issue = Absent
        /\ ~FullyDecodable(r)
        /\ status[r] = 200

\* C7, as claimed: an authorized request whose body is no JSON ends with 400 and
\* no outbound call, on the issues path as on the generic path.
C7_MalformedIs400 ==
    \A r \in DOMAIN req :
        (Done(r) /\ Authorized(r) /\ req[r].json.kind = "invalid")
        => (status[r] = 400 /\ out[r] = <<>>)

\* C8: the full decode is attempted only after the probe found labeled or
\* unlabeled, and when it fails the request ends with 500 and no outbound call.
C8_DecodeFailureIs500 ==
    \A r \in DOMAIN req :
        /\ Took(r, "decode_label_event")
                => (ActionIs(r, "labeled") \/ ActionIs(r, "unlabeled"))
        /\ (Took(r, "decode_label_event") /\ ~FullyDecodable(r))
                => (pc[r] = "done" /\ status[r] = 500 /\ out[r] = <<>>)

\* An unlabeled event whose issue does not decode ended with 500.
C8_Witness ==
    \E r \in DOMAIN req :
        /\ Done(r) /\ Took(r, "decode_label_event")
        /\ ActionIs(r, "unlabeled")
        /\ ~FullyDecodable(r)
        /\ status[r] = 500

(***************************************************************************)
(* Properties of the generic path and of the relay.                        *)
(***************************************************************************)
\* sender.type of the body is the text "User".
SenderIsUser(r) ==
    /\ req[r].json.kind = "object"
    /\ req[r].json.sender.t = "object"
    /\ req[r].json.sender.type = Str("User")

\* C9: an authorized request of another event than issues, with a body that is
\* JSON, is forwarded to the activity sink if and only if sender.type is the
\* text "User"; otherwise it makes no outbound call and ends with 200.
C9_ForwardOnlyHumans ==
    \A r \in DOMAIN req :
        (Done(r) /\ Authorized(r) /\ ~NamesIssues(r) /\ req[r].json.kind # "invalid")
        => /\ (CallsTo(r, config.activity_webhook, "POST") >= 1) <=> SenderIsUser(r)
           /\ ~SenderIsUser(r) => (out[r] = <<>> /\ status[r] = 200)

\* An event sent by an organization was not forwarded.
C9_Witness ==
    \E r \in DOMAIN req :
        /\ Done(r) /\ Authorized(r) /\ ~NamesIssues(r)
        /\ req[r].json.kind = "object"
        /\ req[r].json.sender.t = "object"
        /\ req[r].json.sender.type = Str("Organization")
        /\ out[r] = <<>>
        /\ status[r] = 200

\* C10: a request makes at most one delivery attempt (one POST); once it has
\* ended, a failed outbound call means 500 and calls that all succeeded, 200.
C10_NoRetry ==
    \A r \in DOMAIN req :
        /\ CallsTo(r, config.activity_webhook, "POST")
                + CallsTo(r, config.issues_webhook, "POST") <= 1
        /\ CallsTo(r, config.issues_webhook, "GET") <= 1
        /\ (Done(r) /\ out[r] # <<>>)
                => status[r] = (IF AllCallsOk(r) THEN 200 ELSE 500)

\* A forward that the sink answered with an error status ended with 500.
C10_Witness ==
    \E r \in DOMAIN req :
        /\ Done(r)
        /\ Len(out[r]) = 1
        /\ out[r][1].sink = config.activity_webhook
        /\ out[r][1].result = "http_error"
        /\ status[r] = 500

\* The request has a header of the name.
HasHeader(r, name) == \E i \in 1..Len(req[r].headers) : req[r].headers[i][1] = name

\* C11: every call to the activity sink carries the body of the request as it
\* came and no header named authorization or host.
C11_ForwardSanitized ==
    \A r \in DOMAIN req :
        \A i \in 1..Len(out[r]) :
            out[r][i].sink = config.activity_webhook =>
                /\ out[r][i].body = req[r].body
                /\ \A k \in 1..Len(out[r][i].headers) :
                        out[r][i].headers[k][1] \notin {"authorization", "host"}

\* A request that came with both headers was forwarded.
C11_Witness ==
    \E r \in DOMAIN req :
        /\ HasHeader(r, "authorization")
        /\ HasHeader(r, "host")
        /\ Len(out[r]) = 1
        /\ out[r][1].sink = config.activity_webhook
        /\ out[r][1].headers # <<>>

CallsToSink(r, sink) == Cardinality({i \in 1..Len(out[r]) : out[r][i].sink = sink})

\* C12: a request makes at most one outbound POST; an issues event never calls
\* the activity sink and any other request never calls the issues sink.
C12_OneSink ==
    \A r \in DOMAIN req :
        /\ Cardinality({i \in 1..Len(out[r]) : out[r][i].method = "POST"}) <= 1
        /\ NamesIssues(r) => CallsToSink(r, config.activity_webhook) = 0
        /\ ~NamesIssues(r) => CallsToSink(r, config.issues_webhook) = 0

\* An issues event of a human sender that needs no notification ended without
\* a forward.
C12_Witness ==
    \E r \in DOMAIN req :
        /\ Done(r) /\ Authorized(r) /\ NamesIssues(r)
        /\ ActionIs(r, "closed")
        /\ req[r].json.sender.t = "object"
        /\ req[r].json.sender.type = Str("User")
        /\ out[r] = <<>>

\* C13: an authorized request whose event header is absent, is no text or names
\* anything but "issues" takes the generic path, and its status is an error
\* only for a body that is no JSON (400) or a forward that failed (500).
C13_ClassifyFailsOpen ==
    \A r \in DOMAIN req :
        (Authorized(r) /\ ~NamesIssues(r)) =>
            /\ ~Took(r, "get_issue_action")
            /\ ~Took(r, "decode_label_event")
            /\ pc[r] \in {"classify", "parse", "sender", "forward", "done"}
            /\ Done(r) =>
                /\ Took(r, "from_slice")
                /\ status[r] \in {200, 400, 500}
                /\ status[r] = 400 <=> req[r].json.kind = "invalid"
                /\ status[r] = 500 <=> ~AllCallsOk(r)

\* A pull_request event of a sender that is no human ended with 200.
C13_Witness ==
    \E r \in DOMAIN req :
        /\ Done(r) /\ Authorized(r)
        /\ HeaderGet(req[r].headers, EventName) = Some(StrPullRequest)
        /\ Took(r, "from_slice")
        /\ status[r] = 200

(***************************************************************************)
(* Two requests handled at once: axum runs handle_gh as one task per       *)
(* request, and the tasks interleave at every step.                        *)
(***************************************************************************)
\* The requests that are handled two at a time.
ConcRequests ==
    LET valid(b) == <<SigName, SigValue(b, Config.webhook_secret)>>
        issues == <<EventName, StrIssues>>
        push == <<EventName, StrPush>>
        closed == JsonObject(Str("closed"), Absent, Absent, Absent,
                             UserObject(Str("User"), TRUE))
        undecodable == JsonObject(Str("unlabeled"), Absent, Absent, RepositoryObject(TRUE),
                                  UserObject(Str("User"), TRUE))
        bot == JsonObject(Str("opened"), Absent, Absent, RepositoryObject(TRUE),
                          UserObject(Str("Bot"), TRUE))
    IN  { [headers |-> <<valid(<<1>>), issues>>, body |-> <<1>>, json |-> ReportingPayload],
          [headers |-> <<valid(<<1>>), issues>>, body |-> <<1>>, json |-> closed],
          [headers |-> <<valid(<<1>>), issues>>, body |-> <<1>>, json |-> undecodable],
          [headers |-> <<valid(<<2, 0>>), issues>>, body |-> <<2, 0>>,
           json |-> [kind |-> "invalid"]],
          [headers |-> <<<<"authorization", StrToken>>, valid(<<2, 0>>), push>>,
           body |-> <<2, 0>>, json |-> ReportingPayload],
          [headers |-> <<valid(<<1>>)>>, body |-> <<1>>, json |-> bot],
          [headers |-> <<valid(<<1>>), push>>, body |-> <<1>>, json |-> [kind |-> "invalid"]],
          [headers |-> <<valid(<<1>>), issues>>, body |-> <<2, 0>>, json |-> ReportingPayload],
          [headers |-> <<push>>, body |-> <<1>>, json |-> ReportingPayload] }

InitConc ==
    /\ config = Config
    /\ \E q1 \in ConcRequests, q2 \in ConcRequests : req = <<q1, q2>>
    /\ pc = <<"start", "start">>
    /\ authorized = <<None, None>>
    /\ trace = <<<<>>, <<>>>>
    /\ out = <<<<>>, <<>>>>
    /\ status = <<0, 0>>
    /\ NoFunction

SpecConc == InitConc /\ [][Next]_vars

\* What handling the request q alone can end with: the status and the outbound
\* calls, for every result the sinks may give.
HandledAlone(q) ==
    LET result(code, calls) == [status |-> code, out |-> calls]
        get(res) == [sink |-> Config.issues_webhook, method |-> "GET",
                     headers |-> <<>>, body |-> <<>>, result |-> res]
        post(res) == [sink |-> Config.issues_webhook, method |-> "POST",
                      headers |-> <<>>, body |-> <<"embed">>, result |-> res]
        forward(res) == [sink |-> Config.activity_webhook, method |-> "POST",
                         headers |-> ForwardHeaders(q.headers), body |-> q.body,
                         result |-> res]
    IN  IF ~is_authorized(q.headers, q.body, Config.webhook_secret)
        THEN {result(401, <<>>)}
        ELSE IF is_issues_event(q.headers)
        THEN IF ~get_issue_action(q.json).ok THEN {result(500, <<>>)}
             ELSE IF ~is_label(get_issue_action(q.json).v) THEN {result(200, <<>>)}
             ELSE IF ~DecodeLabelEvent(q.json).ok THEN {result(500, <<>>)}
             ELSE IF ~should_report(DecodeLabelEvent(q.json).v) THEN {result(200, <<>>)}
             ELSE {result(500, <<get("error")>>),
                   result(500, <<get("ok"), post("error")>>),
                   result(200, <<get("ok"), post("ok")>>)}
        ELSE IF q.json.kind = "invalid" THEN {result(400, <<>>)}
        ELSE IF ~is_human_user(q.json) THEN {result(200, <<>>)}
        ELSE {result(200, <<forward("ok")>>),
              result(500, <<forward("connect_error")>>),
              result(500, <<forward("http_error")>>)}

\* C14: whatever the interleaving of the requests in flight, each one ends
\* with a status and outbound calls that handling it alone can end with, and
\* the configuration stays as loaded.
C14_Independent ==
    /\ config = Config
    /\ \A r \in DOMAIN req :
        /\ Done(r) => [status |-> status[r], out |-> out[r]] \in HandledAlone(req[r])
        /\ ~Done(r) => status[r] = 0

\* A refused request ended with 401 after another request, authorized, had
\* been forwarded.
C14_Witness ==
    /\ DOMAIN req = {1, 2}
    /\ Done(1) /\ Done(2)
    /\ Refused(2) /\ status[2] = 401
    /\ Authorized(1) /\ Len(out[1]) = 1
    /\ out[1][1].sink = config.activity_webhook
    /\ trace[1][Len(trace[1])] = "post_to_activity_webhook"

(***************************************************************************)
(* Properties of extract_signature.                                        *)
(***************************************************************************)
\* The lower-case form of a hex digit.
LowerHex(c) ==
    IF \E i \in 1..16 : HexUpper[i] = c
    THEN HexLower[CHOOSE i \in 1..16 : HexUpper[i] = c]
    ELSE c

\* The text v is "sha256=" any number of times, then the hex of the digest d in
\* either letter case.
IsSignatureOf(v, d) ==
    \E k \in 0..(Len(v) \div Len(Sha256Prefix)) :
        /\ StartsWith(v, PrefixTimes(k))
        /\ Len(v) = k * Len(Sha256Prefix) + 2 * Len(d)
        /\ \A i \in 1..(2 * Len(d)) :
                LowerHex(v[k * Len(Sha256Prefix) + i]) = hex_encode(d)[i]

\* C15: for a request that has the signature header, is_authorized is true
\* exactly when the value is text made of "sha256=" zero or more times and the
\* hex, in either letter case, of the digest of the body under the secret.
C15_RepeatedPrefix ==
    (AuthApplied /\ HeaderGet(fn_in.headers, SigName).ok) =>
        (fn_out.v = TRUE <=>
            /\ SigIsText(fn_in.headers)
            /\ IsSignatureOf(HeaderGet(fn_in.headers, SigName).v,
                             HmacSha256(fn_in.secret, fn_in.body)))

\* A value with the prefix repeated and the digest in upper case was accepted.
C15_Witness ==
    /\ AuthApplied
    /\ MaxPrefix >= 2
    /\ fn_in.headers = <<<<SigName, PrefixTimes(MaxPrefix)
            \o hex_encode_upper(HmacSha256(fn_in.secret, fn_in.body))>>>>
    /\ fn_out.v = TRUE

\* C16: every call to the activity sink carries each inbound header other than
\* authorization and host with all of its values, and nothing else.
C16_CopyKeepsAllValues ==
    \A r \in DOMAIN req :
        \A i \in 1..Len(out[r]) :
            out[r][i].sink = config.activity_webhook =>
                /\ \A k \in 1..Len(req[r].headers) :
                        req[r].headers[k][1] \notin {"authorization", "host"} =>
                            \E j \in 1..Len(out[r][i].headers) :
                                out[r][i].headers[j] = req[r].headers[k]
                /\ \A j \in 1..Len(out[r][i].headers) :
                        \E k \in 1..Len(req[r].headers) :
                            out[r][i].headers[j] = req[r].headers[k]

(***************************************************************************)
(* SupportedLanguages::from (commands/languages.rs), applied to a table of *)
(* languages.                                                              *)
(***************************************************************************)
MaxLanguages == 2

LanguageSupportLevel == {"Supported", "InProgress", "PartiallySupported", "NotInProgress"}

support_level_to_vec(l) == <<l.parsing, l.formatting, l.linting>>

is_fully_supported(l) ==
    \A i \in 1..Len(support_level_to_vec(l)) : support_level_to_vec(l)[i] = "Supported"

is_partially_supported(l) ==
    \E i \in 1..Len(support_level_to_vec(l)) :
        support_level_to_vec(l)[i] = "PartiallySupported"

is_work_in_progress(l) ==
    \E i \in 1..Len(support_level_to_vec(l)) : support_level_to_vec(l)[i] = "InProgress"

is_not_supported(l) ==
    \A i \in 1..Len(support_level_to_vec(l)) : support_level_to_vec(l)[i] = "NotInProgress"

\* The loop of lines 60-70 over the first n languages.
RECURSIVE SupportedLanguagesLoop(_, _)
SupportedLanguagesLoop(languages, n) ==
    IF n = 0 THEN [full |-> <<>>, partial |-> <<>>, wip |-> <<>>, nope |-> <<>>]
    ELSE LET lists == SupportedLanguagesLoop(languages, n - 1)
             language == languages[n]
         IN  IF is_fully_supported(language)
             THEN [lists EXCEPT !.full = Append(@, language.language_name)]
             ELSE IF is_partially_supported(language)
             THEN [lists EXCEPT !.partial = Append(@, language.language_name)]
             ELSE IF is_work_in_progress(language)
             THEN [lists EXCEPT !.wip = Append(@, language.language_name)]
             ELSE IF is_not_supported(language)
             THEN [lists EXCEPT !.nope = Append(@, language.language_name)]
             ELSE lists

SupportedLanguages_from(languages) == SupportedLanguagesLoop(languages, Len(languages))

\* The names of the rows of the table, one name a row.
LanguageNames == <<"javascript", "typescript", "json", "css">>

LanguageName(i) == LanguageNames[((i - 1) % Len(LanguageNames)) + 1]

LanguageFeatures ==
    UNION {{t \in [1..n -> [language_name : {LanguageNames[k] : k \in 1..Len(LanguageNames)},
                            parsing : LanguageSupportLevel,
                            formatting : LanguageSupportLevel,
                            linting : LanguageSupportLevel]] :
                \A i \in 1..n : t[i].language_name = LanguageName(i)}
           : n \in 0..MaxLanguages}

InitLang ==
    /\ NoRequests
    /\ fn = "SupportedLanguages_from"
    /\ fn_in \in LanguageFeatures
    /\ fn_out = None

ApplySupportedLanguagesFrom ==
    /\ fn = "SupportedLanguages_from"
    /\ ~fn_out.ok
    /\ fn_out' = Some(SupportedLanguages_from(fn_in))
    /\ UNCHANGED <<fn, fn_in>>
    /\ UNCHANGED reqVars

NextLang == ApplySupportedLanguagesFrom

SpecLang == InitLang /\ [][NextLang]_vars

LangApplied == fn = "SupportedLanguages_from" /\ fn_out.ok

Occurrences(list, name) == Cardinality({j \in 1..Len(list) : list[j] = name})

\* The list the precedence full, partial, wip, nope gives a language.
ListByPrecedence(l) ==
    IF is_fully_supported(l) THEN "full"
    ELSE IF is_partially_supported(l) THEN "partial"
    ELSE IF is_work_in_progress(l) THEN "wip"
    ELSE "nope"

\* C17: each language of the input is in exactly one of the lists full,
\* partial, wip and nope, once, and it is the first of them in that order
\* whose test the language passes, nope taking what is left.
C17_Partition ==
    LangApplied =>
        \A i \in 1..Len(fn_in) :
            LET name == fn_in[i].language_name
                want == ListByPrecedence(fn_in[i])
            IN  /\ Occurrences(fn_out.v.full, name) = (IF want = "full" THEN 1 ELSE 0)
                /\ Occurrences(fn_out.v.partial, name) = (IF want = "partial" THEN 1 ELSE 0)
                /\ Occurrences(fn_out.v.wip, name) = (IF want = "wip" THEN 1 ELSE 0)
                /\ Occurrences(fn_out.v.nope, name) = (IF want = "nope" THEN 1 ELSE 0)

====
